---- MODULE Spec2Model ----
(***************************************************************************)
(* Model of the mock advertisement service (src/mock_service.py).          *)
(*                                                                         *)
(* ThreadingHTTPServer runs every request in a thread of its own and the   *)
(* handlers take no lock, so a handler is modelled as the sequence of its  *)
(* accesses to the shared Storage (counter, items, stats) and to the       *)
(* clock; everything a handler computes on its own locals is folded into   *)
(* the step that precedes the next shared access.                          *)
(*                                                                         *)
(* Python strings are sequences of code points, so that str(), isoformat() *)
(* and the comparison used by list.sort() are computed, not assumed.       *)
(* A title or description is the string made of one character repeated     *)
(* len times (the validator looks at the type and the length only).        *)
(***************************************************************************)
EXTENDS Integers, Sequences, FiniteSets, TLC

(***************************************************************************)
(* Bounds of the model.                                                    *)
(***************************************************************************)
\* number of requests of one client that waits for each answer (SeqSpec)
MaxReq == 4
\* number of requests of concurrent clients (Spec)
MaxConcurrent == 3
\* number of requests of concurrent clients in the small specification
\* (PairSpec)
MaxPair == 2
\* number of handler threads running at the same time
MaxInFlight == 2
\* number of times the clock advances
MaxTicks == 1

(***************************************************************************)
(* Program constants.                                                      *)
(***************************************************************************)
MaxTitleLen == 255
MaxDescriptionLen == 2000
MinSellerId == 111111
MaxSellerId == 999999
MicrosPerSecond == 1000000

\* the clock value of the first state, in microseconds: one microsecond
\* before a whole second, so that isoformat() is seen with and without
\* its fractional part
ClockBase == 999999

(***************************************************************************)
(* JSON values, as json.loads builds them.                                 *)
(***************************************************************************)
JStr(c, n) == [type |-> "str", ch |-> c, len |-> n, val |-> 0]
JInt(v) == [type |-> "int", ch |-> "", len |-> 0, val |-> v]
JBool(b) == [type |-> "bool", ch |-> "", len |-> 0, val |-> IF b THEN 1 ELSE 0]
JFloat == [type |-> "float", ch |-> "", len |-> 0, val |-> 0]
JNull == [type |-> "null", ch |-> "", len |-> 0, val |-> 0]

\* isinstance(v, str)
IsStr(v) == v.type = "str"

\* isinstance(v, int): bool is a subclass of int in Python
IsInt(v) == v.type \in {"int", "bool"}

FieldNames == <<"title", "description", "price", "sellerId">>

NoFields == [f \in {} |-> JNull]

\* payload.get(name, default)
PayloadGet(payload, name, default) ==
    IF name \in DOMAIN payload THEN payload[name] ELSE default

(***************************************************************************)
(* Request bodies.  kind says what the bytes of the body are; obj is the   *)
(* decoded object when they are a JSON object.                             *)
(***************************************************************************)
BodyKinds == {"empty", "garbage", "badutf8", "null", "array", "string",
              "number", "bool", "object"}

Body(kind, obj) == [kind |-> kind, obj |-> obj]

\* Handler._read_json: None for an empty or unparsable body, the decoded
\* value otherwise; bytes that are not UTF-8 make json.loads raise
\* UnicodeDecodeError, which is not a JSONDecodeError and is not caught.
ReadJson(body) ==
    CASE body.kind \in {"empty", "garbage", "null"} -> [tag |-> "none", kind |-> "null", obj |-> NoFields]
      [] body.kind = "badutf8" -> [tag |-> "raise", kind |-> "null", obj |-> NoFields]
      [] OTHER -> [tag |-> "value", kind |-> body.kind, obj |-> body.obj]

Cond(c, msg) == IF c THEN <<msg>> ELSE <<>>

MissingMsg(name) == "missing field: " \o name

RECURSIVE MissingErrors(_, _)
MissingErrors(payload, i) ==
    IF i > Len(FieldNames) THEN <<>>
    ELSE Cond(FieldNames[i] \notin DOMAIN payload, MissingMsg(FieldNames[i]))
         \o MissingErrors(payload, i + 1)

\* a validator whose non-empty checks also fire on a string that is too
\* long
FieldErrorsOverlapping(payload) ==
    LET title == PayloadGet(payload, "title", JStr("", 0))
        description == PayloadGet(payload, "description", JStr("", 0))
        price == PayloadGet(payload, "price", JNull)
        seller_id == PayloadGet(payload, "sellerId", JNull)
    IN  MissingErrors(payload, 1)
        \o Cond(~IsStr(title) \/ title.len = 0 \/ title.len > MaxTitleLen,
                "title must be non-empty string")
        \o Cond(IsStr(title) /\ title.len > MaxTitleLen, "title too long")
        \o Cond(~IsStr(description) \/ description.len = 0
                \/ description.len > MaxDescriptionLen,
                "description must be non-empty string")
        \o Cond(IsStr(description) /\ description.len > MaxDescriptionLen,
                "description too long")
        \o Cond(~IsInt(price) \/ price.val <= 0, "price must be positive integer")
        \o Cond(~IsInt(seller_id)
                \/ ~(MinSellerId <= seller_id.val /\ seller_id.val <= MaxSellerId),
                "sellerId must be int in range 111111-999999")

\* the checks of Handler._validate_item on a dict payload, in source order
FieldErrors(payload) ==
    LET title == PayloadGet(payload, "title", JStr("", 0))
        description == PayloadGet(payload, "description", JStr("", 0))
        price == PayloadGet(payload, "price", JNull)
        seller_id == PayloadGet(payload, "sellerId", JNull)
    IN  MissingErrors(payload, 1)
        \o Cond(~IsStr(title) \/ title.len = 0, "title must be non-empty string")
        \o Cond(IsStr(title) /\ title.len > MaxTitleLen, "title too long")
        \o Cond(~IsStr(description) \/ description.len = 0,
                "description must be non-empty string")
        \o Cond(IsStr(description) /\ description.len > MaxDescriptionLen,
                "description too long")
        \o Cond(~IsInt(price) \/ price.val <= 0, "price must be positive integer")
        \o Cond(~IsInt(seller_id)
                \/ ~(MinSellerId <= seller_id.val /\ seller_id.val <= MaxSellerId),
                "sellerId must be int in range 111111-999999")

\* Handler._validate_item applied to the result of _read_json.  A decoded
\* value that is not a dict has no .get (list, str) or does not support
\* `in` (int, float, bool): the method raises.
ValidateItem(parsed) ==
    CASE parsed.tag = "none" -> [raised |-> FALSE, errors |-> <<"body must be JSON">>]
      [] parsed.tag = "value" /\ parsed.kind = "object" ->
            [raised |-> FALSE, errors |-> FieldErrors(parsed.obj)]
      [] OTHER -> [raised |-> TRUE, errors |-> <<>>]

(***************************************************************************)
(* Python strings as sequences of code points.                             *)
(***************************************************************************)
\* code points: "+" 43, "-" 45, "." 46, "0".."9" 48..57, ":" 58, "T" 84
Digit(d) == 48 + d

\* the decimal digits of n, zero-padded on the left to at least width
RECURSIVE Digits(_, _)
Digits(n, width) ==
    IF n < 10 /\ width <= 1 THEN <<Digit(n)>>
    ELSE Append(Digits(n \div 10, width - 1), Digit(n % 10))

\* str(n) for n >= 0
Str(n) == Digits(n, 1)

\* a < b for Python str: the first differing code point decides, a proper
\* prefix is smaller
RECURSIVE StrLess(_, _)
StrLess(a, b) ==
    CASE b = <<>> -> FALSE
      [] a = <<>> -> TRUE
      [] Head(a) # Head(b) -> Head(a) < Head(b)
      [] OTHER -> StrLess(Tail(a), Tail(b))

\* datetime.now(timezone.utc).isoformat() for a clock of t microseconds
\* since the epoch, t below one minute: the fractional part is printed
\* only when the microseconds are not zero
IsoFormat(t) ==
    LET sec == t \div MicrosPerSecond
        us == t % MicrosPerSecond
        date == Digits(1970, 4) \o <<45>> \o Digits(1, 2) \o <<45>> \o Digits(1, 2)
        time == Digits(0, 2) \o <<58>> \o Digits(0, 2) \o <<58>> \o Digits(sec, 2)
        frac == IF us = 0 THEN <<>> ELSE <<46>> \o Digits(us, 6)
        zone == <<43>> \o Digits(0, 2) \o <<58>> \o Digits(0, 2)
    IN  date \o <<84>> \o time \o frac \o zone

(***************************************************************************)
(* Python dict: entries in insertion order; assigning to a key that is     *)
(* present replaces the value and keeps the position.                      *)
(***************************************************************************)
DictKeys(d) == {d[i].k : i \in 1..Len(d)}

DictHas(d, k) == k \in DictKeys(d)

DictGet(d, k) == d[CHOOSE i \in 1..Len(d) : d[i].k = k].v

DictSet(d, k, v) ==
    IF DictHas(d, k)
    THEN [i \in 1..Len(d) |-> IF d[i].k = k THEN [k |-> k, v |-> v] ELSE d[i]]
    ELSE Append(d, [k |-> k, v |-> v])

\* list(d.values())
DictValues(d) == [i \in 1..Len(d) |-> d[i].v]

(***************************************************************************)
(* Records of the service.                                                 *)
(***************************************************************************)
\* Item(id, title, description, price, sellerId, createdAt)
Item(id, payload, createdAt) ==
    [id |-> id, title |-> payload["title"], description |-> payload["description"],
     price |-> payload["price"], sellerId |-> payload["sellerId"],
     createdAt |-> createdAt]

NoItem ==
    [id |-> <<>>, title |-> JNull, description |-> JNull, price |-> JNull,
     sellerId |-> JNull, createdAt |-> <<>>]

\* Stats(itemId): the three counters default to 0
Stats(itemId) == [itemId |-> itemId, views |-> 0, contacts |-> 0, favorites |-> 0]

NoStats == [itemId |-> <<>>, views |-> 0, contacts |-> 0, favorites |-> 0]

\* what _json_response sends: the status and the payload, one field of
\* which is filled
Response(status) ==
    [status |-> status, errors |-> <<>>, error |-> "", item |-> NoItem,
     items |-> <<>>, statistics |-> NoStats]

NoResponse == Response(0)

\* a sort that is ascending but not stable: an element goes before the
\* elements that compare equal to it
RECURSIVE SortUnstable(_)
SortUnstable(xs) ==
    IF xs = <<>> THEN <<>>
    ELSE LET sorted == SortUnstable(SubSeq(xs, 1, Len(xs) - 1))
             x == xs[Len(xs)]
             n == Cardinality({i \in 1..Len(sorted) :
                                 StrLess(sorted[i].createdAt, x.createdAt)})
         IN  SubSeq(sorted, 1, n) \o <<x>> \o SubSeq(sorted, n + 1, Len(sorted))

\* list.sort(key=createdAt): stable, ascending
RECURSIVE SortByCreatedAt(_)
SortByCreatedAt(xs) ==
    IF xs = <<>> THEN <<>>
    ELSE LET sorted == SortByCreatedAt(SubSeq(xs, 1, Len(xs) - 1))
             x == xs[Len(xs)]
             \* x goes after every element that is not greater than it
             n == Cardinality({i \in 1..Len(sorted) :
                                 ~StrLess(x.createdAt, sorted[i].createdAt)})
         IN  SubSeq(sorted, 1, n) \o <<x>> \o SubSeq(sorted, n + 1, Len(sorted))

\* int(seller): an optional sign and decimal digits, ValueError otherwise
IsDigits(s) == s # <<>> /\ \A i \in 1..Len(s) : s[i] \in 48..57

RECURSIVE DigitsValue(_)
DigitsValue(s) ==
    IF s = <<>> THEN 0 ELSE 10 * DigitsValue(SubSeq(s, 1, Len(s) - 1)) + (s[Len(s)] - 48)

ParseInt(s) ==
    CASE IsDigits(s) -> [ok |-> TRUE, val |-> DigitsValue(s)]
      [] s # <<>> /\ s[1] = 43 /\ IsDigits(Tail(s)) -> [ok |-> TRUE, val |-> DigitsValue(Tail(s))]
      [] s # <<>> /\ s[1] = 45 /\ IsDigits(Tail(s)) -> [ok |-> TRUE, val |-> 0 - DigitsValue(Tail(s))]
      [] OTHER -> [ok |-> FALSE, val |-> 0]

(***************************************************************************)
(* Requests the model sends.                                               *)
(***************************************************************************)
SellerA == MinSellerId
SellerB == MaxSellerId

Payload(title, description, price, sellerId) ==
    [title |-> title, description |-> description, price |-> price,
     sellerId |-> sellerId]

ValidA == Payload(JStr("a", 1), JStr("d", 1), JInt(1), JInt(SellerA))
ValidB == Payload(JStr("b", MaxTitleLen), JStr("e", 2), JInt(2), JInt(SellerB))
BadPrice == Payload(JStr("a", 1), JStr("d", 1), JInt(0), JInt(SellerA))

\* the long_payload fixture: sample_payload with a title of 260 and a
\* description of 2100 letters
LongTitleLen == 260
LongDescriptionLen == 2100
LongPayload ==
    Payload(JStr("t", LongTitleLen), JStr("d", LongDescriptionLen), JInt(1), JInt(SellerA))

NoBody == Body("empty", NoFields)

(***************************************************************************)
(* Routing.  A path is a Python string: "/" is 47, "/api/1/" is            *)
(* 47 97 112 105 47 49 47.                                                 *)
(***************************************************************************)
PathApi == <<47, 97, 112, 105, 47, 49, 47>>

\* "/api/1/item"
PathItem == PathApi \o <<105, 116, 101, 109>>

\* "/api/1/items"
PathItems == PathItem \o <<115>>

\* "/api/1/statistics"
PathStatistics == PathApi \o <<115, 116, 97, 116, 105, 115, 116, 105, 99, 115>>

\* "/other"
PathOther == <<47, 111, 116, 104, 101, 114>>

\* s.startswith(p)
StartsWith(s, p) == Len(s) >= Len(p) /\ SubSeq(s, 1, Len(p)) = p

\* s.rstrip("/")
RECURSIVE RStripSlash(_)
RStripSlash(s) ==
    IF s # <<>> /\ s[Len(s)] = 47 THEN RStripSlash(SubSeq(s, 1, Len(s) - 1)) ELSE s

\* s.split("/")[-1]
RECURSIVE LastSegment(_)
LastSegment(s) ==
    IF s = <<>> \/ s[Len(s)] = 47 THEN <<>>
    ELSE Append(LastSegment(SubSeq(s, 1, Len(s) - 1)), s[Len(s)])

\* do_POST and do_GET: the operation a method and a path are dispatched
\* to; send_error(404) when no branch matches; BaseHTTPRequestHandler
\* answers 501 to a method for which the handler has no do_ method
Route(method, path) ==
    CASE method = "POST" ->
            IF RStripSlash(path) = PathItem THEN "create" ELSE "notfound"
      [] method = "GET" ->
            CASE StartsWith(path, PathItem \o <<47>>) -> "get"
              [] StartsWith(path, PathItems) -> "list"
              [] StartsWith(path, PathStatistics \o <<47>>) -> "stats"
              [] OTHER -> "notfound"
      [] OTHER -> "unsupported"

\* an HTTP request as the handler sees it: op is the branch it takes and
\* id the item_id that the branch cuts out of the path
HttpRequest(method, path, body, has, seller) ==
    [op |-> Route(method, path), method |-> method, path |-> path,
     body |-> body,
     id |-> IF Route(method, path) \in {"get", "stats"} THEN LastSegment(path) ELSE <<>>,
     hasSeller |-> has, seller |-> seller]

\* the requests that AdApiClient builds
CreateRequest(body) == HttpRequest("POST", PathItem, body, FALSE, <<>>)
GetRequest(id) == HttpRequest("GET", PathItem \o <<47>> \o id, NoBody, FALSE, <<>>)
StatsRequest(id) == HttpRequest("GET", PathStatistics \o <<47>> \o id, NoBody, FALSE, <<>>)
ListRequest(has, seller) == HttpRequest("GET", PathItems, NoBody, has, seller)

NoRequest ==
    [op |-> "none", method |-> "", path |-> <<>>, body |-> NoBody, id |-> <<>>,
     hasSeller |-> FALSE, seller |-> <<>>]

\* field values for the validator: the types and the boundaries of each
\* field; Absent stands for a field that the object does not have
Absent == [type |-> "absent", ch |-> "", len |-> 0, val |-> 0]

ValTitles ==
    {Absent, JInt(7), JBool(TRUE)}
    \cup {JStr("a", n) : n \in {0, 1, MaxTitleLen, MaxTitleLen + 1}}

ValDescriptions ==
    {Absent, JBool(TRUE)}
    \cup {JStr("d", n) : n \in {0, 1, MaxDescriptionLen, MaxDescriptionLen + 1}}

ValPrices ==
    {Absent, JStr("1", 1), JFloat, JBool(TRUE), JBool(FALSE)}
    \cup {JInt(v) : v \in {0 - 1, 0, 1}}

ValSellers ==
    {Absent, JStr("1", 6), JBool(TRUE)}
    \cup {JInt(v) : v \in {MinSellerId - 1, MinSellerId, MaxSellerId, MaxSellerId + 1}}

\* the JSON object with the fields that are not Absent
Object(title, description, price, sellerId) ==
    LET all == Payload(title, description, price, sellerId)
    IN  [f \in {g \in DOMAIN all : all[g] # Absent} |-> all[f]]

ValObjects ==
    {Object(t, d, p, s) : t \in ValTitles, d \in ValDescriptions,
                          p \in ValPrices, s \in ValSellers}

ValRequests ==
    {CreateRequest(Body("object", o)) : o \in ValObjects}
    \cup {CreateRequest(Body(k, NoFields)) : k \in BodyKinds \ {"object"}}
    \cup {CreateRequest(Body("object", LongPayload))}

Requests ==
    {CreateRequest(Body("object", p)) : p \in {ValidA, ValidB, BadPrice}}
    \cup {CreateRequest(Body("array", NoFields))}
    \cup {GetRequest(Str(1)), StatsRequest(Str(1))}
    \cup {ListRequest(TRUE, Str(SellerA))}

\* requests for the routes, for paths next to the routes and for methods
\* without a handler
HttpRequests ==
    {HttpRequest("POST", p, Body("object", ValidA), FALSE, <<>>) :
        p \in {PathItem, PathItem \o <<47>>, PathItems}}
    \cup {HttpRequest("GET", p, NoBody, FALSE, <<>>) :
            p \in {PathItem, PathItem \o <<47>> \o Str(1),
                   PathItem \o <<47, 97, 47>> \o Str(1),
                   PathStatistics, PathStatistics \o <<47>> \o Str(1), PathOther}}
    \cup {HttpRequest("GET", p, NoBody, has, Str(SellerA)) :
            p \in {PathItems, PathItems \o <<88>>}, has \in BOOLEAN}
    \cup {HttpRequest("PUT", PathItem, Body("object", ValidA), FALSE, <<>>),
          HttpRequest("DELETE", PathItem \o <<47>> \o Str(1), NoBody, FALSE, <<>>)}

(***************************************************************************)
(* State.                                                                  *)
(***************************************************************************)
VARIABLES
    counter,    \* Storage.counter
    items,      \* Storage.items
    stats,      \* Storage.stats
    clock,      \* the UTC clock, in microseconds
    nreq,       \* number of requests received so far
    req,        \* req[r]: the request
    pc,         \* pc[r]: where the handler thread of request r is
    local,      \* local[r]: the locals of that handler
    resp,       \* resp[r]: the response the client has received
    after,      \* after[r]: the requests that were over when r arrived
    server      \* MockAdServer: the serve_forever loop, the socket, __exit__

vars == <<counter, items, stats, clock, nreq, req, pc, local, resp, after, server>>

Reqs == 1..MaxReq

NoLocal ==
    [n |-> 0, item_id |-> <<>>, createdAt |-> <<>>, seller_id |-> 0,
     it_used |-> 0, it_pos |-> 0, acc |-> <<>>, out |-> NoResponse]

\* the handler of r has answered, or has died with an exception (the
\* client then sees the connection closed without a response)
Over(r) == pc[r] \in {"done", "crashed"}

InFlight(r) == pc[r] \notin {"new", "done", "crashed"}

\* MockAdServer after __enter__: the thread runs serve_forever, the socket
\* listens.  inflight and accepted are what __exit__ leaves behind: the
\* handlers that were running when shutdown was called and the number
\* of requests accepted when __exit__ returned.
Serving ==
    [loop |-> "serving", socket |-> "listening", exited |-> FALSE,
     waited |-> FALSE, inflight |-> {}, accepted |-> 0]

Init ==
    /\ counter = 0
    /\ items = <<>>
    /\ stats = <<>>
    /\ clock = ClockBase
    /\ nreq = 0
    /\ req = [r \in Reqs |-> NoRequest]
    /\ pc = [r \in Reqs |-> "new"]
    /\ local = [r \in Reqs |-> NoLocal]
    /\ resp = [r \in Reqs |-> NoResponse]
    /\ after = [r \in Reqs |-> {}]
    /\ server = Serving

\* the clock advances (it never goes backwards)
Tick ==
    /\ clock < ClockBase + MaxTicks
    /\ clock' = clock + 1
    /\ UNCHANGED <<counter, items, stats, nreq, req, pc, local, resp, after, server>>

(***************************************************************************)
(* Handlers.  A request arrives and its handler thread runs up to its      *)
(* first access to the shared storage; each later action is one access.    *)
(***************************************************************************)
\* serve_forever accepts a connection and starts its handler thread; when
\* shutdown has been requested after the loop tested the flag, this is the
\* last connection of the loop
Arrive(r, rq) ==
    /\ r = nreq + 1
    /\ r \in Reqs
    /\ server.loop \in {"serving", "stopping"}
    /\ server' = IF server.loop = "stopping" THEN [server EXCEPT !.loop = "last"]
                 ELSE server
    /\ nreq' = r
    /\ req' = [req EXCEPT ![r] = rq]
    /\ after' = [after EXCEPT ![r] = {q \in Reqs : Over(q)}]

Goto(r, label) == pc' = [pc EXCEPT ![r] = label]

\* the handler has its response ready; Respond sends it
Answer(r, out) ==
    /\ local' = [local EXCEPT ![r].out = out]
    /\ Goto(r, "respond")

\* a create handler that takes the next id before it validates
HandleCreateItemEager(r, rq) ==
    /\ rq.op = "create"
    /\ Arrive(r, rq)
    /\ LET parsed == ReadJson(rq.body)
           checked == ValidateItem(parsed)
       IN  CASE parsed.tag = "raise" \/ checked.raised ->
                    Goto(r, "crashed") /\ UNCHANGED <<local, counter>>
             [] checked.errors # <<>> ->
                    /\ Answer(r, [Response(400) EXCEPT !.errors = checked.errors])
                    /\ counter' = counter + 1
             [] OTHER ->
                    Goto(r, "load_counter") /\ UNCHANGED <<local, counter>>
    /\ UNCHANGED <<items, stats, clock, resp>>

\* do_POST /api/1/item: _read_json, _validate_item and the 400 answer
HandleCreateItem(r, rq) ==
    /\ rq.op = "create"
    /\ Arrive(r, rq)
    /\ LET parsed == ReadJson(rq.body)
           checked == ValidateItem(parsed)
       IN  CASE parsed.tag = "raise" \/ checked.raised ->
                    Goto(r, "crashed") /\ UNCHANGED local
             [] checked.errors # <<>> ->
                    Answer(r, [Response(400) EXCEPT !.errors = checked.errors])
             [] OTHER ->
                    Goto(r, "load_counter") /\ UNCHANGED local
    /\ UNCHANGED <<counter, items, stats, clock, resp>>

\* Storage.next_id, `self.counter += 1`: the read of the attribute
LoadCounter(r) ==
    /\ pc[r] = "load_counter"
    /\ local' = [local EXCEPT ![r].n = counter]
    /\ Goto(r, "store_counter")
    /\ UNCHANGED <<counter, items, stats, clock, nreq, req, resp, after, server>>

\* Storage.next_id, `self.counter += 1`: the write of the attribute
StoreCounter(r) ==
    /\ pc[r] = "store_counter"
    /\ counter' = local[r].n + 1
    /\ Goto(r, "read_counter")
    /\ UNCHANGED <<items, stats, clock, nreq, req, local, resp, after, server>>

\* Storage.next_id, `return str(self.counter)`
ReadCounter(r) ==
    /\ pc[r] = "read_counter"
    /\ local' = [local EXCEPT ![r].item_id = Str(counter)]
    /\ Goto(r, "now")
    /\ UNCHANGED <<counter, items, stats, clock, nreq, req, resp, after, server>>

\* createdAt=datetime.now(timezone.utc).isoformat()
Now(r) ==
    /\ pc[r] = "now"
    /\ local' = [local EXCEPT ![r].createdAt = IsoFormat(clock)]
    /\ Goto(r, "put_item")
    /\ UNCHANGED <<counter, items, stats, clock, nreq, req, resp, after, server>>

NewItem(r) == Item(local[r].item_id, req[r].body.obj, local[r].createdAt)

\* self.storage.items[item_id] = item
PutItem(r) ==
    /\ pc[r] = "put_item"
    /\ items' = DictSet(items, local[r].item_id, NewItem(r))
    /\ Goto(r, "put_stats")
    /\ UNCHANGED <<counter, stats, clock, nreq, req, local, resp, after, server>>

\* a create that stores the statistics under the current value of the
\* counter instead of the id it took
PutStatsRereads(r) ==
    /\ pc[r] = "put_stats"
    /\ stats' = DictSet(stats, Str(counter), Stats(local[r].item_id))
    /\ Answer(r, [Response(201) EXCEPT !.item = NewItem(r)])
    /\ UNCHANGED <<counter, items, clock, nreq, req, resp, after, server>>

\* self.storage.stats[item_id] = Stats(itemId=item_id), and the 201 answer
PutStats(r) ==
    /\ pc[r] = "put_stats"
    /\ stats' = DictSet(stats, local[r].item_id, Stats(local[r].item_id))
    /\ Answer(r, [Response(201) EXCEPT !.item = NewItem(r)])
    /\ UNCHANGED <<counter, items, clock, nreq, req, resp, after, server>>

\* do_GET /api/1/item/{id}: the request arrives
HandleGetItem(r, rq) ==
    /\ rq.op = "get"
    /\ Arrive(r, rq)
    /\ Goto(r, "get_item")
    /\ UNCHANGED <<counter, items, stats, clock, local, resp>>

\* a get-by-id that answers an unknown id with the message of the
\* statistics handler
GetItemResponseSwapped(d, id) ==
    IF DictHas(d, id)
    THEN [Response(200) EXCEPT !.item = DictGet(d, id)]
    ELSE [Response(404) EXCEPT !.error = "stats not found"]

\* _handle_get_item: self.storage.items.get(item_id)
GetItemResponse(d, id) ==
    IF DictHas(d, id)
    THEN [Response(200) EXCEPT !.item = DictGet(d, id)]
    ELSE [Response(404) EXCEPT !.error = "item not found"]

\* a get-by-id that counts a view of the item it returns
GetItemCounting(r) ==
    /\ pc[r] = "get_item"
    /\ Answer(r, GetItemResponse(items, req[r].id))
    /\ stats' = IF DictHas(stats, req[r].id)
                THEN LET st == DictGet(stats, req[r].id)
                     IN  DictSet(stats, req[r].id, [st EXCEPT !.views = st.views + 1])
                ELSE stats
    /\ UNCHANGED <<counter, items, clock, nreq, req, resp, after, server>>

GetItem(r) ==
    /\ pc[r] = "get_item"
    /\ Answer(r, GetItemResponse(items, req[r].id))
    /\ UNCHANGED <<counter, items, stats, clock, nreq, req, resp, after, server>>

\* do_GET /api/1/statistics/{id}: the request arrives
HandleStats(r, rq) ==
    /\ rq.op = "stats"
    /\ Arrive(r, rq)
    /\ Goto(r, "get_stats")
    /\ UNCHANGED <<counter, items, stats, clock, local, resp>>

\* _handle_stats: self.storage.stats.get(item_id)
StatsResponse(d, id) ==
    IF DictHas(d, id)
    THEN [Response(200) EXCEPT !.statistics = DictGet(d, id)]
    ELSE [Response(404) EXCEPT !.error = "stats not found"]

GetStats(r) ==
    /\ pc[r] = "get_stats"
    /\ Answer(r, StatsResponse(stats, req[r].id))
    /\ UNCHANGED <<counter, items, stats, clock, nreq, req, resp, after, server>>

\* _handle_list_items, the checks of the sellerId parameter: the 400
\* answer, or the seller id to list
ListQuery(rq) ==
    LET parsed == ParseInt(rq.seller)
    IN  CASE ~rq.hasSeller ->
                [ok |-> FALSE, seller_id |-> 0, error |-> "sellerId is required"]
          [] ~parsed.ok ->
                [ok |-> FALSE, seller_id |-> 0, error |-> "sellerId must be integer"]
          [] ~(MinSellerId <= parsed.val /\ parsed.val <= MaxSellerId) ->
                [ok |-> FALSE, seller_id |-> 0,
                 error |-> "sellerId must be in range 111111-999999"]
          [] OTHER -> [ok |-> TRUE, seller_id |-> parsed.val, error |-> ""]

\* do_GET /api/1/items: the request arrives and its parameter is checked
HandleListItems(r, rq) ==
    /\ rq.op = "list"
    /\ Arrive(r, rq)
    /\ LET q == ListQuery(rq)
       IN  IF q.ok
           THEN /\ local' = [local EXCEPT ![r].seller_id = q.seller_id]
                /\ Goto(r, "list_iter")
           ELSE Answer(r, [Response(400) EXCEPT !.error = q.error])
    /\ UNCHANGED <<counter, items, stats, clock, resp>>

\* the comprehension starts: iter(self.storage.items.values()) notes the
\* size of the dict
ListIter(r) ==
    /\ pc[r] = "list_iter"
    /\ local' = [local EXCEPT ![r].it_used = Len(items), ![r].it_pos = 0]
    /\ Goto(r, "list_next")
    /\ UNCHANGED <<counter, items, stats, clock, nreq, req, resp, after, server>>

\* `if item.sellerId == seller_id`
Matches(item, seller_id) == IsInt(item.sellerId) /\ item.sellerId.val = seller_id

\* one step of the comprehension: the iterator raises RuntimeError when
\* the dict has changed size since iter(); at the end the list is sorted
\* and answered
ListNext(r) ==
    /\ pc[r] = "list_next"
    /\ LET l == local[r]
       IN  CASE Len(items) # l.it_used ->
                    Goto(r, "crashed") /\ UNCHANGED local
             [] l.it_pos >= Len(items) ->
                    Answer(r, [Response(200) EXCEPT !.items = SortByCreatedAt(l.acc)])
             [] OTHER ->
                    LET item == items[l.it_pos + 1].v
                    IN  /\ local' = [local EXCEPT
                                ![r].it_pos = l.it_pos + 1,
                                ![r].acc = IF Matches(item, l.seller_id)
                                           THEN Append(l.acc, item) ELSE l.acc]
                        /\ UNCHANGED pc
    /\ UNCHANGED <<counter, items, stats, clock, nreq, req, resp, after, server>>

\* _json_response: the client receives the answer
Respond(r) ==
    /\ pc[r] = "respond"
    /\ resp' = [resp EXCEPT ![r] = local[r].out]
    /\ Goto(r, "done")
    /\ UNCHANGED <<counter, items, stats, clock, nreq, req, local, after, server>>

\* send_error(404, "Not Found") of do_POST and do_GET: an answer that is
\* not JSON
SendNotFound(r, rq) ==
    /\ rq.op = "notfound"
    /\ Arrive(r, rq)
    /\ Answer(r, Response(404))
    /\ UNCHANGED <<counter, items, stats, clock, resp>>

\* BaseHTTPRequestHandler: send_error(501) for a method without do_ method
SendUnsupported(r, rq) ==
    /\ rq.op = "unsupported"
    /\ Arrive(r, rq)
    /\ Answer(r, Response(501))
    /\ UNCHANGED <<counter, items, stats, clock, resp>>

Receive ==
    \E r \in Reqs, rq \in Requests :
        \/ HandleCreateItem(r, rq)
        \/ HandleGetItem(r, rq)
        \/ HandleStats(r, rq)
        \/ HandleListItems(r, rq)

Step ==
    \E r \in Reqs :
        \/ LoadCounter(r)
        \/ StoreCounter(r)
        \/ ReadCounter(r)
        \/ Now(r)
        \/ PutItem(r)
        \/ PutStats(r)
        \/ GetItem(r)
        \/ GetStats(r)
        \/ ListIter(r)
        \/ ListNext(r)
        \/ Respond(r)

\* Thread.join(timeout): returns at once when the thread has ended, and
\* after the timeout when it is still alive
JoinOutcome(alive) == IF alive THEN "timeout" ELSE "joined"

\* __exit__, first half: server.shutdown() asks the serve_forever loop to
\* stop; the handlers running at this moment are remembered
Shutdown ==
    /\ server.loop = "serving"
    /\ server' = [server EXCEPT !.loop = "stopping",
                                !.inflight = {r \in Reqs : InFlight(r)}]
    /\ UNCHANGED <<counter, items, stats, clock, nreq, req, pc, local, resp, after>>

\* serve_forever sees the flag and leaves its loop; shutdown() returns.
\* The loop waits for no handler thread, they are daemon threads
LoopExit ==
    /\ server.loop \in {"stopping", "last"}
    /\ server' = [server EXCEPT !.loop = "stopped"]
    /\ UNCHANGED <<counter, items, stats, clock, nreq, req, pc, local, resp, after>>

\* __exit__, second half: thread.join(timeout=2) on the serve_forever
\* thread, then __exit__ returns.  server_close() is never called, the
\* socket stays as it is
Exit ==
    /\ server.loop = "stopped"
    /\ ~server.exited
    /\ server' = [server EXCEPT
                     !.exited = TRUE,
                     !.waited = JoinOutcome(server.loop # "stopped") = "timeout",
                     !.accepted = nreq]
    /\ UNCHANGED <<counter, items, stats, clock, nreq, req, pc, local, resp, after>>

\* no handler is running
Quiet == \A r \in Reqs : ~InFlight(r)

\* the server takes a request of concurrent clients
Accept(budget) ==
    /\ nreq < budget
    /\ Cardinality({q \in Reqs : InFlight(q)}) < MaxInFlight

Next == Tick \/ (Accept(MaxConcurrent) /\ Receive) \/ Step

\* the service under concurrent requests
Spec == Init /\ [][Next]_vars

PairNext == (Accept(MaxPair) /\ Receive) \/ Step

\* the service under two concurrent requests, within one reading of the
\* clock
PairSpec == Init /\ [][PairNext]_vars

SeqNext == Tick \/ (Quiet /\ Receive) \/ Step

\* the service under one client that waits for each answer before it
\* sends the next request (the test suite)
SeqSpec == Init /\ [][SeqNext]_vars

RouteReceive ==
    \E r \in Reqs, rq \in HttpRequests :
        \/ HandleCreateItem(r, rq)
        \/ HandleGetItem(r, rq)
        \/ HandleStats(r, rq)
        \/ HandleListItems(r, rq)
        \/ SendNotFound(r, rq)
        \/ SendUnsupported(r, rq)

RouteNext == (nreq < MaxPair /\ Quiet /\ RouteReceive) \/ Step

\* the dispatch of methods and paths, two requests one after the other
RouteSpec == Init /\ [][RouteNext]_vars

LifeNext ==
    \/ (Accept(MaxPair) /\ Receive)
    \/ Step
    \/ Shutdown
    \/ LoopExit
    \/ Exit

\* the service from __enter__ to after __exit__, two concurrent requests
LifeSpec == Init /\ [][LifeNext]_vars

\* one create request with any of the bodies of ValRequests
ValReceive == nreq = 0 /\ \E rq \in ValRequests : HandleCreateItem(1, rq)

ValNext ==
    \/ ValReceive
    \/ \E r \in Reqs :
          \/ LoadCounter(r)
          \/ StoreCounter(r)
          \/ ReadCounter(r)
          \/ Now(r)
          \/ PutItem(r)
          \/ PutStats(r)
          \/ Respond(r)

\* the create handler over the bodies and field values of the validator
ValSpec == Init /\ [][ValNext]_vars

TypeOK ==
    /\ counter \in 0..MaxReq
    /\ nreq \in 0..MaxReq
    /\ \A r \in Reqs : pc[r] = "new" <=> r > nreq
    /\ server.loop \in {"serving", "stopping", "last", "stopped"}
    /\ server.exited => server.loop = "stopped"
    /\ server.inflight \subseteq Reqs

(***************************************************************************)
(* Vocabulary of the properties.                                           *)
(***************************************************************************)
\* the create request r has been answered 201
Created(r) == pc[r] = "done" /\ req[r].op = "create" /\ resp[r].status = 201

\* the numeric value of the id that Created(r) returned
IdValue(r) == DigitsValue(resp[r].item.id)

\* the request r has been answered
Answered(r, op) == pc[r] = "done" /\ req[r].op = op

(***************************************************************************)
(* C1: no two creates answered 201 return the same id, and a create that   *)
(* is answered before another create arrives returns the smaller id.       *)
(***************************************************************************)
C1_UniqueIncreasingIds ==
    \A r, q \in Reqs :
        (r # q /\ Created(r) /\ Created(q)) =>
            /\ resp[r].item.id # resp[q].item.id
            /\ (r \in after[q] => IdValue(r) < IdValue(q))

(***************************************************************************)
(* C2: a reader never sees an item without its statistics: when get-by-id  *)
(* has answered 200 for an id, a get-statistics for that id that arrives   *)
(* afterwards does not answer 404, and the id of every create answered 201 *)
(* is a key of the statistics map.                                         *)
(***************************************************************************)
C2_ItemIffStats ==
    /\ \A g, s \in Reqs :
          (/\ Answered(g, "get") /\ resp[g].status = 200
           /\ Answered(s, "stats") /\ req[s].id = req[g].id
           /\ g \in after[s]) => resp[s].status = 200
    /\ \A r \in Reqs : Created(r) => DictHas(stats, resp[r].item.id)

(***************************************************************************)
(* The handlers run one at a time: what a request does to the storage and  *)
(* what it answers when no other handler runs between its steps.           *)
(***************************************************************************)
Storage(c, i, s) == [counter |-> c, items |-> i, stats |-> s]

Outcome(st, crashed, out) == [storage |-> st, crashed |-> crashed, out |-> out]

\* _handle_create_item, createdAt being what the clock shows
SerialCreate(st, rq, createdAt) ==
    LET parsed == ReadJson(rq.body)
        checked == ValidateItem(parsed)
        id == Str(st.counter + 1)
        item == Item(id, rq.body.obj, createdAt)
    IN  CASE parsed.tag = "raise" \/ checked.raised -> Outcome(st, TRUE, NoResponse)
          [] checked.errors # <<>> ->
                Outcome(st, FALSE, [Response(400) EXCEPT !.errors = checked.errors])
          [] OTHER ->
                Outcome(Storage(st.counter + 1, DictSet(st.items, id, item),
                                DictSet(st.stats, id, Stats(id))),
                        FALSE, [Response(201) EXCEPT !.item = item])

\* [asdict(item) for item in items.values() if item.sellerId == seller_id]
RECURSIVE SellerItems(_, _)
SellerItems(xs, seller_id) ==
    IF xs = <<>> THEN <<>>
    ELSE IF Matches(Head(xs), seller_id)
         THEN <<Head(xs)>> \o SellerItems(Tail(xs), seller_id)
         ELSE SellerItems(Tail(xs), seller_id)

\* _handle_list_items
SerialList(st, rq) ==
    LET q == ListQuery(rq)
    IN  IF q.ok
        THEN Outcome(st, FALSE,
                [Response(200) EXCEPT
                    !.items = SortByCreatedAt(SellerItems(DictValues(st.items), q.seller_id))])
        ELSE Outcome(st, FALSE, [Response(400) EXCEPT !.error = q.error])

SerialHandle(st, rq, createdAt) ==
    CASE rq.op = "create" -> SerialCreate(st, rq, createdAt)
      [] rq.op = "get" -> Outcome(st, FALSE, GetItemResponse(st.items, rq.id))
      [] rq.op = "stats" -> Outcome(st, FALSE, StatsResponse(st.stats, rq.id))
      [] OTHER -> SerialList(st, rq)

\* the requests order[1..n] handled one after the other from the empty
\* storage: the final storage and the outcome of each request
RECURSIVE SerialRun(_, _)
SerialRun(order, n) ==
    IF n = 0
    THEN [storage |-> Storage(0, <<>>, <<>>), outcome |-> [r \in {} |-> 0]]
    ELSE LET before == SerialRun(order, n - 1)
             r == order[n]
             o == SerialHandle(before.storage, req[r], local[r].createdAt)
         IN  [storage |-> o.storage,
              outcome |-> [q \in DOMAIN before.outcome \cup {r} |->
                              IF q = r THEN o ELSE before.outcome[q]]]

Orders(n) == {f \in [1..n -> 1..n] : \A i, j \in 1..n : f[i] = f[j] => i = j}

(***************************************************************************)
(* C3: when every request received is over, the answers and the storage    *)
(* are those of the same requests handled one at a time in some order.     *)
(***************************************************************************)
C3_Serializable ==
    Quiet =>
        \E order \in Orders(nreq) :
            LET run == SerialRun(order, nreq)
            IN  /\ run.storage = Storage(counter, items, stats)
                /\ \A r \in 1..nreq :
                      /\ run.outcome[r].crashed = (pc[r] = "crashed")
                      /\ run.outcome[r].out = resp[r]

(***************************************************************************)
(* C4: a create with a valid payload is answered 201 with an item that     *)
(* carries the fields of the payload, and a get-by-id for the returned id  *)
(* that arrives after that answer is answered 200 with the same item.      *)
(***************************************************************************)
C4_RoundTrip ==
    /\ \A r \in Reqs :
          (Over(r) /\ req[r].op = "create" /\ req[r].body \in
                {Body("object", ValidA), Body("object", ValidB)}) =>
             /\ resp[r].status = 201
             /\ \A f \in DOMAIN req[r].body.obj : resp[r].item[f] = req[r].body.obj[f]
    /\ \A r, g \in Reqs :
          (/\ Created(r) /\ Answered(g, "get")
           /\ r \in after[g] /\ req[g].id = resp[r].item.id) =>
             /\ resp[g].status = 200
             /\ resp[g].item = resp[r].item

(***************************************************************************)
(* C5: a key of the item map stays a key and keeps its record.             *)
(***************************************************************************)
C5_ItemsImmutable ==
    [][\A i \in 1..Len(items) :
          /\ DictHas(items', items[i].k)
          /\ DictGet(items', items[i].k) = items[i].v]_vars

(***************************************************************************)
(* C6: when no handler is running, the keys of the item map are the        *)
(* decimal strings of 1..counter and counter is the number of creates      *)
(* answered 201.                                                           *)
(***************************************************************************)
C6_GaplessIds ==
    Quiet =>
        /\ DictKeys(items) = {Str(i) : i \in 1..counter}
        /\ counter = Cardinality({r \in Reqs : Created(r)})

(***************************************************************************)
(* C7: under a client that waits for each answer, list-by-seller answers   *)
(* 200 with exactly the items created before it for that seller, in the    *)
(* order of their creation (the empty list when there is none).            *)
(***************************************************************************)
\* the items that the creates 1..n answered 201 for the seller, in order
RECURSIVE CreatedFor(_, _)
CreatedFor(n, seller_id) ==
    IF n = 0 THEN <<>>
    ELSE CreatedFor(n - 1, seller_id)
         \o (IF Created(n) /\ req[n].body.obj["sellerId"] = JInt(seller_id)
             THEN <<resp[n].item>> ELSE <<>>)

C7_ListBySeller ==
    \A l \in Reqs :
        (Over(l) /\ req[l].op = "list" /\ ListQuery(req[l]).ok) =>
            /\ pc[l] = "done"
            /\ resp[l].status = 200
            /\ resp[l].items = CreatedFor(l - 1, DigitsValue(req[l].seller))

\* a list answered with two items while a third item is of another seller
C7_Witness ==
    \E l \in Reqs :
        /\ Answered(l, "list")
        /\ Len(resp[l].items) = 2
        /\ Len(items) = 3

(***************************************************************************)
(* C8: a create with an object body is answered 201 exactly when title is  *)
(* a non-empty string of at most 255 characters, description a non-empty   *)
(* string of at most 2000, price of integer type and > 0 and sellerId of   *)
(* integer type within 111111..999999; it is answered 400 otherwise.       *)
(***************************************************************************)
ClaimValid(obj) ==
    /\ DOMAIN obj = {"title", "description", "price", "sellerId"}
    /\ obj["title"].type = "str"
    /\ obj["title"].len \in 1..255
    /\ obj["description"].type = "str"
    /\ obj["description"].len \in 1..2000
    /\ obj["price"].type = "int"
    /\ obj["price"].val > 0
    /\ obj["sellerId"].type = "int"
    /\ obj["sellerId"].val \in 111111..999999

C8_CreatedIffValid ==
    \A r \in Reqs :
        (Over(r) /\ req[r].op = "create" /\ req[r].body.kind = "object") =>
            /\ pc[r] = "done"
            /\ resp[r].status = IF ClaimValid(req[r].body.obj) THEN 201 ELSE 400

(***************************************************************************)
(* C9: a create that the validator rejects is answered 400 with a          *)
(* non-empty errors list, and no step of its handler changes the counter,  *)
(* the item map or the statistics map.                                     *)
(***************************************************************************)
Rejected(rq) ==
    /\ rq.op = "create"
    /\ ~ValidateItem(ReadJson(rq.body)).raised
    /\ ValidateItem(ReadJson(rq.body)).errors # <<>>

C10_NonObjectBody ==
    \A r \in Reqs :
        (req[r].op = "create" /\ req[r].body.kind # "object") =>
            /\ pc[r] # "crashed"
            /\ <<counter, items, stats>> = <<0, <<>>, <<>>>>
            /\ pc[r] = "done" =>
                  /\ resp[r].status = 400
                  /\ Len(resp[r].errors) = 1

(***************************************************************************)
(* C11: for a create with an object body the validator reports every rule  *)
(* that the payload breaks: a message naming each absent field, and the    *)
(* violation of each field whose value breaks its rule; it reports nothing *)
(* exactly when no rule is broken.                                         *)
(***************************************************************************)
\* the violations the rules of the validator call for
ClaimViolations(obj) ==
    {MissingMsg(f) : f \in {"title", "description", "price", "sellerId"} \ DOMAIN obj}
    \cup (IF "title" \in DOMAIN obj
             /\ (obj["title"].type # "str" \/ obj["title"].len = 0)
          THEN {"title must be non-empty string"} ELSE {})
    \cup (IF "title" \in DOMAIN obj
             /\ obj["title"].type = "str" /\ obj["title"].len > MaxTitleLen
          THEN {"title too long"} ELSE {})
    \cup (IF "description" \in DOMAIN obj
             /\ (obj["description"].type # "str" \/ obj["description"].len = 0)
          THEN {"description must be non-empty string"} ELSE {})
    \cup (IF "description" \in DOMAIN obj
             /\ obj["description"].type = "str" /\ obj["description"].len > MaxDescriptionLen
          THEN {"description too long"} ELSE {})
    \cup (IF "price" \in DOMAIN obj
             /\ (obj["price"].type # "int" \/ obj["price"].val <= 0)
          THEN {"price must be positive integer"} ELSE {})
    \cup (IF "sellerId" \in DOMAIN obj
             /\ (obj["sellerId"].type # "int"
                 \/ obj["sellerId"].val \notin MinSellerId..MaxSellerId)
          THEN {"sellerId must be int in range 111111-999999"} ELSE {})

\* the violations the validator returned for the answered create r
Reported(r) == {resp[r].errors[i] : i \in 1..Len(resp[r].errors)}

C11_AllViolations ==
    \A r \in Reqs :
        (Answered(r, "create") /\ req[r].body.kind = "object") =>
            /\ ClaimViolations(req[r].body.obj) \subseteq Reported(r)
            /\ (Reported(r) = {}) = (ClaimViolations(req[r].body.obj) = {})

(***************************************************************************)
(* C12: a request whose method and path are not one of the four routes is  *)
(* answered 404, and no step of its handler changes the storage.           *)
(***************************************************************************)
\* a path made of the prefix, "/" and one non-empty segment
OneSegmentUnder(path, prefix) ==
    /\ StartsWith(path, prefix \o <<47>>)
    /\ Len(path) > Len(prefix) + 1
    /\ \A i \in (Len(prefix) + 2)..Len(path) : path[i] # 47

ClaimRoute(rq) ==
    \/ rq.method = "POST" /\ RStripSlash(rq.path) = PathItem
    \/ rq.method = "GET" /\ OneSegmentUnder(rq.path, PathItem)
    \/ rq.method = "GET" /\ rq.path = PathItems
    \/ rq.method = "GET" /\ OneSegmentUnder(rq.path, PathStatistics)

C12_UnknownRoute ==
    [][\A r \in Reqs :
          (pc'[r] # pc[r] /\ ~ClaimRoute(req'[r])) =>
             /\ <<counter, items, stats>>' = <<counter, items, stats>>
             /\ pc'[r] = "done" => resp'[r].status = 404]_vars

\* C13: once __exit__ has returned, no new connection is accepted, every
\* request that was in flight when shutdown began has finished its
\* response or the bounded wait has elapsed, and the listening socket is
\* released.
C13_GracefulShutdown ==
    server.exited =>
        /\ nreq = server.accepted
        /\ \A r \in server.inflight : Over(r) \/ server.waited
        /\ server.socket = "closed"

\* C14: every request accepted before shutdown gets exactly one response,
\* with status 200, 201, 400 or 404, whatever its body and the concurrent
\* requests are: no handler ends without a response, and a handler that
\* is over has answered with one of these statuses.
C14_AlwaysAnswered ==
    \A r \in Reqs :
        /\ pc[r] # "crashed"
        /\ pc[r] = "done" => resp[r].status \in {200, 201, 400, 404}

\* C15: get-by-id answers 200 with the stored item when the id is a key of
\* the item map and 404 "item not found" otherwise; get-statistics answers
\* 200 with the stored statistics when the id is a key of the statistics
\* map and 404 "stats not found" otherwise.
C15_Lookup ==
    [][\A r \in Reqs :
          (pc[r] = "respond" /\ pc'[r] = "done") =>
             /\ req[r].op = "get" =>
                   IF \E i \in 1..Len(items) : items[i].k = req[r].id
                   THEN /\ resp'[r].status = 200
                        /\ resp'[r].item = DictGet(items, req[r].id)
                        /\ resp'[r].error = ""
                   ELSE /\ resp'[r].status = 404
                        /\ resp'[r].error = "item not found"
                        /\ resp'[r].item = NoItem
             /\ req[r].op = "stats" =>
                   IF \E i \in 1..Len(stats) : stats[i].k = req[r].id
                   THEN /\ resp'[r].status = 200
                        /\ resp'[r].statistics = DictGet(stats, req[r].id)
                        /\ resp'[r].error = ""
                   ELSE /\ resp'[r].status = 404
                        /\ resp'[r].error = "stats not found"
                        /\ resp'[r].statistics = NoStats]_vars

\* a get-statistics answered 404 on the empty store, and a get-by-id
\* answered 200 with the item of an earlier create
C15_Witness ==
    \E g, s, c \in Reqs :
        /\ Answered(s, "stats") /\ resp[s].status = 404 /\ after[s] = {}
        /\ Created(c)
        /\ Answered(g, "get") /\ resp[g].status = 200
        /\ resp[g].item = resp[c].item

\* the sellerId parameter of a list request is an integer of 111111..999999
ClaimSeller(rq) ==
    /\ rq.hasSeller
    /\ IsDigits(rq.seller)
    /\ DigitsValue(rq.seller) \in MinSellerId..MaxSellerId

\* C16: a list-by-seller request is answered, 200 with a list of items when
\* its sellerId is an integer of 111111..999999 and 400 otherwise, in
\* every store state and while creates run.
C16_ListAnswered ==
    \A l \in Reqs :
        (Over(l) /\ req[l].op = "list") =>
            /\ pc[l] = "done"
            /\ resp[l].status = IF ClaimSeller(req[l]) THEN 200 ELSE 400

\* the request r reads: get-by-id, get-statistics or list-by-seller
Reads(rq) == rq.op \in {"get", "stats", "list"}

\* C17: no step of a get-by-id, get-statistics or list-by-seller handler
\* changes the item map, the statistics map or the id counter, and two
\* answered reads with the same argument and no create answered 201
\* between them have identical responses.
C17_ReadIdempotent ==
    /\ [][\A r \in Reqs :
             ((pc'[r] # pc[r] \/ local'[r] # local[r]) /\ Reads(req'[r])) =>
                 <<counter, items, stats>>' = <<counter, items, stats>>]_vars
    /\ [](\A a, b \in Reqs :
             (/\ a < b
              /\ pc[a] = "done" /\ pc[b] = "done"
              /\ Reads(req[a]) /\ req[a] = req[b]
              /\ \A c \in Reqs : (a < c /\ c < b) => ~Created(c)) =>
                 resp[a] = resp[b])

\* a get-by-id repeated after a create, both answered 200 with the item,
\* and a statistics request between them
C17_Witness ==
    \E c, a, b \in Reqs :
        /\ c < a /\ a + 1 < b
        /\ Created(c)
        /\ Answered(a, "get") /\ Answered(b, "get")
        /\ Answered(a + 1, "stats")
        /\ resp[a].status = 200 /\ resp[b].status = 200
        /\ resp[a].item = resp[c].item

\* C18: in every state the statistics stored under a key k have itemId = k
\* and the three counters 0, and the item stored under k has id = k.
C18_KeysAndCounters ==
    /\ \A i \in 1..Len(stats) :
          /\ stats[i].v.itemId = stats[i].k
          /\ stats[i].v.views = 0
          /\ stats[i].v.contacts = 0
          /\ stats[i].v.favorites = 0
    /\ \A i \in 1..Len(items) : items[i].v.id = items[i].k

\* two creates that ran at the same time have stored two items and two
\* statistics records
C18_Witness ==
    /\ Len(items) = 2 /\ Len(stats) = 2
    /\ \E r, q \in Reqs : r # q /\ Created(r) /\ Created(q) /\ q \notin after[r]
                          /\ r \notin after[q]

\* C19: of two stored items the one with the smaller numeric id was
\* inserted first and has a createdAt that is not later, and every list
\* answered 200 is in increasing id order, under any interleaving of
\* concurrent creates.
C19_CreationOrder ==
    /\ \A i, j \in 1..Len(items) :
          DigitsValue(items[i].k) < DigitsValue(items[j].k) =>
              /\ i < j
              /\ ~StrLess(items[j].v.createdAt, items[i].v.createdAt)
    /\ \A l \in Reqs :
          (Answered(l, "list") /\ resp[l].status = 200) =>
              \A i, j \in 1..Len(resp[l].items) :
                  i < j => DigitsValue(resp[l].items[i].id)
                              < DigitsValue(resp[l].items[j].id)

\* the field f of the object is a string longer than limit
TooLong(obj, f, limit) ==
    f \in DOMAIN obj /\ obj[f].type = "str" /\ obj[f].len > limit

\* C20: the wrong-type/empty check and the too-long check of the title are
\* not mutually exclusive: a create whose title is a string longer than
\* 255 (the 260-character title) is answered with both violations;
\* likewise for the description and 2000.
C20_BothChecksFire ==
    \A r \in Reqs :
        (Answered(r, "create") /\ req[r].body.kind = "object") =>
            /\ TooLong(req[r].body.obj, "title", MaxTitleLen) =>
                  {"title must be non-empty string", "title too long"}
                      \subseteq Reported(r)
            /\ TooLong(req[r].body.obj, "description", MaxDescriptionLen) =>
                  {"description must be non-empty string", "description too long"}
                      \subseteq Reported(r)

\* C20, amended: the two checks of the title are mutually exclusive: no
\* create is answered with both violations, and a title that is a string
\* longer than 255 gets "title too long" without the non-empty violation;
\* likewise for the description and 2000.
C20_ChecksExclusive ==
    \A r \in Reqs :
        (Answered(r, "create") /\ req[r].body.kind = "object") =>
            /\ ~({"title must be non-empty string", "title too long"}
                    \subseteq Reported(r))
            /\ ~({"description must be non-empty string", "description too long"}
                    \subseteq Reported(r))
            /\ TooLong(req[r].body.obj, "title", MaxTitleLen) =>
                  /\ "title too long" \in Reported(r)
                  /\ "title must be non-empty string" \notin Reported(r)
            /\ TooLong(req[r].body.obj, "description", MaxDescriptionLen) =>
                  /\ "description too long" \in Reported(r)
                  /\ "description must be non-empty string" \notin Reported(r)

\* the create of the long payload is answered 400 with the two too-long
\* violations and nothing else
C20_Witness ==
    \E r \in Reqs :
        /\ Answered(r, "create")
        /\ req[r].body.obj = LongPayload
        /\ resp[r].status = 400
        /\ resp[r].errors = <<"title too long", "description too long">>

====
